---- MODULE Spec2Model ----
(***************************************************************************)
(* Application lifecycle orchestrator of Service-Hub                       *)
(* (src/application/managers/applications.py, class ApplicationManager).   *)
(*                                                                         *)
(* One application slot is modelled: the repository holds at most one      *)
(* Application record, the cluster is the set of release names present.    *)
(* Every await of a handler is one step; the outcome of a chart operation  *)
(* (success or HelmException) is chosen by the environment.                *)
(***************************************************************************)
EXTENDS Naturals, Sequences, FiniteSets

\* ------------------------------------------------------------------ bounds

\* Input values range over 1..MaxValue.
MaxValue == 2

\* ------------------------------------------------- templates (collaborators)

InputNames == {"region", "replicas", "tier"}
Values == 1..MaxValue
TemplateIds == {"T1", "T2"}
Releases == {"A", "B", "C", "D"}

\* Every user input map: a function from a set of input names to values.
InputMaps == UNION {[S -> Values] : S \in SUBSET InputNames}

\* The input schema a template revision declares: name, optional default,
\* immutable flag, in declaration order.
TemplateInputs(t) ==
    IF t = "T1"
    THEN << [name |-> "region", has_default |-> FALSE, default |-> 1, immutable |-> TRUE],
            [name |-> "replicas", has_default |-> TRUE, default |-> 1, immutable |-> FALSE] >>
    ELSE << [name |-> "region", has_default |-> FALSE, default |-> 1, immutable |-> TRUE],
            [name |-> "replicas", has_default |-> TRUE, default |-> 1, immutable |-> FALSE],
            [name |-> "tier", has_default |-> TRUE, default |-> 1, immutable |-> TRUE] >>

Range(s) == {s[i] : i \in 1..Len(s)}

DeclaredNames(t) == {d.name : d \in Range(TemplateInputs(t))}

\* The inputs of a schema that declare no default.
RequiredNames(schema) == {d.name : d \in {e \in Range(schema) : ~e.has_default}}

\* A chart declaration of a manifest.
Chart(name, chart, version, values) ==
    [name |-> name, chart |-> chart, version |-> version, values |-> values]

\* The chart declarations a template body yields for fully resolved inputs v.
\* T1 declares B only for replicas >= 2, T2 declares D only for tier >= 2.
TemplateCharts(t, v) ==
    IF t = "T1"
    THEN << Chart("A", "chartA", "v1", v["region"]) >>
         \o (IF v["replicas"] >= 2 THEN << Chart("B", "chartB", "v1", v["replicas"]) >> ELSE << >>)
    ELSE << Chart("B", "chartB", "v2", v["replicas"]), Chart("C", "chartC", "v2", v["region"]) >>
         \o (IF v["tier"] >= 2 THEN << Chart("D", "chartD", "v2", v["tier"]) >> ELSE << >>)

\* validate_inputs against an input schema: every input without a default
\* must be supplied.
validate_inputs(schema, inputs) == RequiredNames(schema) \subseteq DOMAIN inputs

\* The value the template engine resolves for a declared input.
Resolved(t, inputs) ==
    [n \in DeclaredNames(t) |->
        IF n \in DOMAIN inputs THEN inputs[n]
        ELSE (CHOOSE d \in Range(TemplateInputs(t)) : d.name = n).default]

\* render_template fails (TemplateRenderError) on an unresolved input.
Renderable(t, inputs) == RequiredNames(TemplateInputs(t)) \subseteq DOMAIN inputs

\* render_template: the rendered manifest. It carries the application name,
\* the input schema and the chart declarations in declaration order.
render_template(t, inputs) ==
    [name |-> "app",
     inputs |-> TemplateInputs(t),
     charts |-> TemplateCharts(t, Resolved(t, inputs))]

\* load_template(manifest).chart_mapping: release name -> declaration.
chart_mapping(manifest) ==
    [r \in {c.name : c \in Range(manifest.charts)} |->
        CHOOSE c \in Range(manifest.charts) : c.name = r]

\* load_template(manifest).inputs_mapping: input name -> descriptor.
inputs_mapping(manifest) ==
    [n \in {d.name : d \in Range(manifest.inputs)} |->
        CHOOSE d \in Range(manifest.inputs) : d.name = n]

\* ------------------------------------------------ chart operations backend

\* HelmManager.install_chart on the cluster: a successful real install adds
\* the release; a dry run or a failure leaves the cluster as it was.
install_chart(cl, release, dry, ok) == IF ok /\ ~dry THEN cl \cup {release} ELSE cl

\* HelmManager.uninstall_release on the cluster.
uninstall_release(cl, release, dry, ok) == IF ok /\ ~dry THEN cl \ {release} ELSE cl

\* HelmManager.update_release never changes which releases exist.
update_release(cl, release, dry, ok) == cl

\* One record of the chart-client call log.
HelmCall(kind, release, dry, ok) ==
    [kind |-> kind, release |-> release, dry_run |-> dry, ok |-> ok]

\* ------------------------------------------------------------------- state

NoRecord == [status |-> "none"]
NoTemplate == "none"
NoManifest == [name |-> "none", inputs |-> << >>, charts |-> << >>]
NoInputs == [n \in {} |-> "none"]
NoResult == [kind |-> "none"]
NoError == [type |-> "none", kind |-> "none", release |-> "none", names |-> << >>]

\* The HelmException of a failed chart operation.
HelmException(kind, release) ==
    [type |-> "HelmException", kind |-> kind, release |-> release, names |-> << >>]

\* A failure raised outside the chart operations, with the input names it lists.
Failure(type, names) == [type |-> type, kind |-> "none", release |-> "none", names |-> names]

\* uninstall_release called without dry_run uses the parameter's default.
DefaultDryRun == FALSE

\* No terminate() runs beside the call in hand.
NoTerminate ==
    [pc |-> "idle", index |-> 1, manifest |-> NoManifest, entered_at |-> "none"]

VARIABLES
    cluster,             \* release names present in the cluster
    entry_cluster,       \* history: the cluster as it was when the call entered
    db,                  \* the persisted Application record, or NoRecord
    op,                  \* the lifecycle call in progress or last finished
    pc,                  \* position of that call
    dry_run,             \* its dry_run argument
    template,            \* its template argument (install, upgrade)
    user_inputs,         \* inputs (install, update_user_inputs) / merged inputs (upgrade)
    application,         \* the Application object the call was given
    old_template_schema, \* load_template(application.manifest) taken at entry
    manifest,            \* the manifest this call rendered (terminate: the stored one)
    index,               \* loop position in a declaration sequence (1-based)
    todo,                \* releases a set-driven loop has still to visit
    installed_charts,    \* upgrade: releases installed so far, in order
    rollback,            \* releases still to uninstall during compensation
    results,             \* install_results / update_results: release -> chart
    updated,             \* upgrade's update_results: release -> chart
    helm_calls,          \* chart-client calls issued by this call, in order
    db_calls,            \* repository writes issued by this call, in order
    error,               \* the failure raised by this call, or NoError
    result,              \* the value returned by this call, or NoResult
    concurrent           \* a terminate() running in another request, beside this call

vars == << cluster, entry_cluster, db, op, pc, dry_run, template, user_inputs, application,
           old_template_schema, manifest, index, todo, installed_charts, rollback,
           results, updated, helm_calls, db_calls, error, result, concurrent >>

\* The arguments and parsed manifests of a call, fixed once it has entered,
\* and the terminate() of another request, which no step of this call touches.
frame == << entry_cluster, op, dry_run, template, user_inputs, old_template_schema,
           manifest, concurrent >>

\* No call is in progress: the next request may enter.
Idle == pc = "idle"

\* The call in hand has returned its result or raised its failure.
Finished == pc \in {"returned", "raised"}

EmptyMap == [r \in {} |-> "none"]

Put(f, k, v) == [x \in DOMAIN f \cup {k} |-> IF x = k THEN v ELSE f[x]]

Reverse(s) == [i \in 1..Len(s) |-> s[Len(s) + 1 - i]]

Names(cs) == [i \in 1..Len(cs) |-> cs[i].name]

Init ==
    /\ cluster = {}
    /\ entry_cluster = {}
    /\ db = NoRecord
    /\ op = "none"
    /\ pc = "idle"
    /\ dry_run = FALSE
    /\ template = NoTemplate
    /\ user_inputs = NoInputs
    /\ application = NoRecord
    /\ old_template_schema = NoManifest
    /\ manifest = NoManifest
    /\ index = 1
    /\ todo = {}
    /\ installed_charts = << >>
    /\ rollback = << >>
    /\ results = EmptyMap
    /\ updated = EmptyMap
    /\ helm_calls = << >>
    /\ db_calls = << >>
    /\ error = NoError
    /\ result = NoResult
    /\ concurrent = NoTerminate

\* Entry of a lifecycle call: the locals of the previous call are dropped.
Enter(o, dry, t, inputs, app, old, m) ==
    /\ entry_cluster' = cluster
    /\ op' = o
    /\ dry_run' = dry
    /\ template' = t
    /\ user_inputs' = inputs
    /\ application' = app
    /\ old_template_schema' = old
    /\ manifest' = m
    /\ index' = 1
    /\ installed_charts' = << >>
    /\ rollback' = << >>
    /\ results' = EmptyMap
    /\ updated' = EmptyMap
    /\ helm_calls' = << >>
    /\ db_calls' = << >>
    /\ result' = NoResult
    /\ concurrent' = concurrent

\* The call raises e.
Raise(e) == pc' = "raised" /\ error' = e

\* ----------------------------------------------------------------- install

\* The declarations of the manifest in hand, load_template(manifest).charts.
charts == manifest.charts

\* Mutant: the slice stops one chart early (charts[:index - 1]).
install_rollback_charts_short(cs, k) == Reverse(Names(SubSeq(cs, 1, k - 2)))

\* Mutant: the slice is walked forwards (reversed() dropped).
install_rollback_charts_forward(cs, k) == Names(SubSeq(cs, 1, k - 1))

\* reversed(manifest_schema.charts[:index]) for the failing chart at
\* (1-based) position k: the charts installed before it, last first.
install_rollback_charts(cs, k) == Reverse(Names(SubSeq(cs, 1, k - 1)))

\* Mutant: the compensation runs whatever dry_run is.
compensates_always(dry) == TRUE

\* "if not dry_run" before the compensation of a failed install.
compensates(dry) == ~dry

\* Mutant: the repository write happens whatever dry_run is.
persists_always(dry) == TRUE

\* "if not dry_run" before the repository write.
persists(dry) == ~dry

\* Mutant: the record keeps the inputs with the defaults filled in.
new_application_resolved(m, inputs, t) ==
    [status |-> "running", name |-> m.name, manifest |-> m,
     user_inputs |-> Resolved(t, inputs), template |-> t]

\* The record install hands to db.create.
new_application(m, inputs, t) ==
    [status |-> "running", name |-> m.name, manifest |-> m,
     user_inputs |-> inputs, template |-> t]

\* install(): validate_inputs, render_template, load_template.
InstallCall(t, inputs, dry) ==
    /\ Idle
    /\ db = NoRecord
    /\ IF validate_inputs(TemplateInputs(t), inputs)
       THEN /\ Enter("install", dry, t, inputs, NoRecord, NoManifest,
                     render_template(t, inputs))
            /\ pc' = "install_chart"
            /\ error' = NoError
       ELSE /\ Enter("install", dry, t, inputs, NoRecord, NoManifest, NoManifest)
            /\ Raise(Failure("InvalidInputs", << >>))
    /\ todo' = {}
    /\ UNCHANGED << cluster, db >>

\* Mutant: a chart whose install failed is tried once more before the call
\* gives up.
InstallChartRetrying ==
    /\ pc = "install_chart"
    /\ index <= Len(charts)
    /\ LET chart == charts[index]
           tried == \E i \in 1..Len(helm_calls) :
                        helm_calls[i].kind = "install" /\ helm_calls[i].release = chart.name IN
       \E ok \in BOOLEAN :
          /\ helm_calls' = Append(helm_calls, HelmCall("install", chart.name, dry_run, ok))
          /\ cluster' = install_chart(cluster, chart.name, dry_run, ok)
          /\ IF ok
             THEN /\ results' = Put(results, chart.name, chart.chart)
                  /\ index' = index + 1
                  /\ pc' = IF index + 1 > Len(charts) THEN "install_create" ELSE "install_chart"
                  /\ UNCHANGED << rollback, error >>
             ELSE IF ~tried
             THEN UNCHANGED << results, index, pc, rollback, error >>
             ELSE /\ error' = HelmException("install", chart.name)
                  /\ rollback' = IF compensates(dry_run)
                                 THEN install_rollback_charts(charts, index)
                                 ELSE << >>
                  /\ pc' = IF rollback' = << >> THEN "raised" ELSE "install_rollback"
                  /\ UNCHANGED << results, index >>
    /\ UNCHANGED << db, frame, application, todo, installed_charts, updated,
                    db_calls, result >>

\* Mutant: the try block sits inside the loop, so a chart whose install
\* failed is skipped and the loop goes on; only a failure of the last chart
\* ends the call.
InstallChartContinuing ==
    /\ pc = "install_chart"
    /\ index <= Len(charts)
    /\ LET chart == charts[index] IN
       \E ok \in BOOLEAN :
          /\ helm_calls' = Append(helm_calls, HelmCall("install", chart.name, dry_run, ok))
          /\ cluster' = install_chart(cluster, chart.name, dry_run, ok)
          /\ IF ok
             THEN /\ results' = Put(results, chart.name, chart.chart)
                  /\ index' = index + 1
                  /\ pc' = IF index + 1 > Len(charts) THEN "install_create" ELSE "install_chart"
                  /\ UNCHANGED << rollback, error >>
             ELSE IF index < Len(charts)
             THEN /\ index' = index + 1
                  /\ UNCHANGED << results, pc, rollback, error >>
             ELSE /\ error' = HelmException("install", chart.name)
                  /\ rollback' = IF compensates(dry_run)
                                 THEN install_rollback_charts(charts, index)
                                 ELSE << >>
                  /\ pc' = IF rollback' = << >> THEN "raised" ELSE "install_rollback"
                  /\ UNCHANGED << results, index >>
    /\ UNCHANGED << db, frame, application, todo, installed_charts, updated,
                    db_calls, result >>

\* One pass of the install loop: helm_manager.install_chart for charts[index].
InstallChart ==
    /\ pc = "install_chart"
    /\ index <= Len(charts)
    /\ LET chart == charts[index] IN
       \E ok \in BOOLEAN :
          /\ helm_calls' = Append(helm_calls, HelmCall("install", chart.name, dry_run, ok))
          /\ cluster' = install_chart(cluster, chart.name, dry_run, ok)
          /\ IF ok
             THEN /\ results' = Put(results, chart.name, chart.chart)
                  /\ index' = index + 1
                  /\ pc' = IF index + 1 > Len(charts) THEN "install_create" ELSE "install_chart"
                  /\ UNCHANGED << rollback, error >>
             ELSE /\ error' = HelmException("install", chart.name)
                  /\ rollback' = IF compensates(dry_run)
                                 THEN install_rollback_charts(charts, index)
                                 ELSE << >>
                  /\ pc' = IF rollback' = << >> THEN "raised" ELSE "install_rollback"
                  /\ UNCHANGED << results, index >>
    /\ UNCHANGED << db, frame, application, todo, installed_charts, updated,
                    db_calls, result >>

\* Mutant: a HelmException of a clean-up uninstall is not caught; it ends
\* the clean-up and is the failure raised.
InstallRollbackAborting ==
    /\ pc = "install_rollback"
    /\ rollback # << >>
    /\ \E ok \in BOOLEAN :
          /\ helm_calls' = Append(helm_calls,
                                  HelmCall("uninstall", Head(rollback), DefaultDryRun, ok))
          /\ cluster' = uninstall_release(cluster, Head(rollback), DefaultDryRun, ok)
          /\ IF ok
             THEN /\ rollback' = Tail(rollback)
                  /\ pc' = IF Tail(rollback) = << >> THEN "raised" ELSE "install_rollback"
                  /\ UNCHANGED error
             ELSE /\ Raise(HelmException("uninstall", Head(rollback)))
                  /\ UNCHANGED rollback
    /\ UNCHANGED << db, frame, application, index, todo, installed_charts, results,
                    updated, db_calls, result >>

\* One pass of the clean-up loop: uninstall_release, its HelmException
\* logged and dropped; after the last pass the install failure is re-raised.
InstallRollback ==
    /\ pc = "install_rollback"
    /\ rollback # << >>
    /\ \E ok \in BOOLEAN :
          /\ helm_calls' = Append(helm_calls,
                                  HelmCall("uninstall", Head(rollback), DefaultDryRun, ok))
          /\ cluster' = uninstall_release(cluster, Head(rollback), DefaultDryRun, ok)
    /\ rollback' = Tail(rollback)
    /\ pc' = IF Tail(rollback) = << >> THEN "raised" ELSE "install_rollback"
    /\ UNCHANGED << db, frame, application, index, todo, installed_charts, results,
                    updated, db_calls, error, result >>

\* After the loop: db.create unless dry_run, then return.
InstallCreate ==
    /\ pc = "install_create"
    /\ IF persists(dry_run)
       THEN /\ db' = new_application(manifest, user_inputs, template)
            /\ db_calls' = Append(db_calls, "create")
       ELSE UNCHANGED << db, db_calls >>
    /\ result' = [kind |-> "install",
                  application |-> IF persists(dry_run) THEN db' ELSE NoRecord,
                  results |-> results]
    /\ pc' = "returned"
    /\ UNCHANGED << cluster, frame, application, index, todo, installed_charts,
                    rollback, results, updated, helm_calls, error >>

\* ----------------------------------------------------------------- upgrade

\* The defaults the new template declares ('default' in __fields_set__).
input_defaults(t) ==
    [n \in {d.name : d \in {e \in Range(TemplateInputs(t)) : e.has_default}} |->
        (CHOOSE d \in Range(TemplateInputs(t)) : d.name = n).default]

\* Mutant: the operands are merged the other way round, so a declared
\* default overrides the value the user supplied.
merge_inputs_defaults_win(defaults, existing) ==
    [n \in DOMAIN defaults \cup DOMAIN existing |->
        IF n \in DOMAIN defaults THEN defaults[n] ELSE existing[n]]

\* {**input_defaults, **application.user_inputs}
merge_inputs(defaults, existing) ==
    [n \in DOMAIN defaults \cup DOMAIN existing |->
        IF n \in DOMAIN existing THEN existing[n] ELSE defaults[n]]

\* Mutant: every release of the new mapping is installed (the difference
\* with the old mapping is dropped).
charts_to_install_all(old, new) == DOMAIN chart_mapping(new)

\* Mutant: the removals are taken from the new mapping (the operands of the
\* difference are swapped).
releases_to_remove_swapped(old, new) == DOMAIN chart_mapping(new) \ DOMAIN chart_mapping(old)

\* The diff between the old and the new chart mapping.
charts_to_install(old, new) == DOMAIN chart_mapping(new) \ DOMAIN chart_mapping(old)
releases_to_remove(old, new) == DOMAIN chart_mapping(old) \ DOMAIN chart_mapping(new)
releases_to_update(old, new) == DOMAIN chart_mapping(old) \cap DOMAIN chart_mapping(new)

\* Mutant: the removal loop is placed first, so upgrade() removes the old
\* releases before it installs or updates anything.
upgrade_next_remove_first(after, old, new) ==
    IF after = "entry" /\ releases_to_remove(old, new) # {}
    THEN [pc |-> "upgrade_remove", todo |-> releases_to_remove(old, new)]
    ELSE IF after = "entry" /\ charts_to_install(old, new) # {}
    THEN [pc |-> "upgrade_install", todo |-> charts_to_install(old, new)]
    ELSE IF after \in {"entry", "install"} /\ releases_to_update(old, new) # {}
    THEN [pc |-> "upgrade_update", todo |-> releases_to_update(old, new)]
    ELSE [pc |-> "upgrade_save", todo |-> {}]

\* The loop upgrade() runs after the one named: the three loops follow one
\* another in the order install, update, remove; then the record is saved.
\* A loop over an empty set has no pass.
upgrade_next(after, old, new) ==
    IF after = "entry" /\ charts_to_install(old, new) # {}
    THEN [pc |-> "upgrade_install", todo |-> charts_to_install(old, new)]
    ELSE IF after \in {"entry", "install"} /\ releases_to_update(old, new) # {}
    THEN [pc |-> "upgrade_update", todo |-> releases_to_update(old, new)]
    ELSE IF after \in {"entry", "install", "update"} /\ releases_to_remove(old, new) # {}
    THEN [pc |-> "upgrade_remove", todo |-> releases_to_remove(old, new)]
    ELSE [pc |-> "upgrade_save", todo |-> {}]

\* Mutant: the installed charts are walked forwards (reversed() dropped).
upgrade_rollback_charts_forward(installed) == installed

\* reversed(installed_charts)
upgrade_rollback_charts(installed) == Reverse(installed)

\* upgrade(): merge the inputs, render the new template, parse both manifests.
UpgradeCall(t, dry) ==
    /\ Idle
    /\ db # NoRecord
    /\ LET merged == merge_inputs(input_defaults(t), db.user_inputs) IN
       IF Renderable(t, merged)
       THEN /\ Enter("upgrade", dry, t, merged, db, db.manifest, render_template(t, merged))
            /\ pc' = upgrade_next("entry", db.manifest, render_template(t, merged)).pc
            /\ todo' = upgrade_next("entry", db.manifest, render_template(t, merged)).todo
            /\ error' = NoError
       ELSE /\ Enter("upgrade", dry, t, merged, db, db.manifest, NoManifest)
            /\ Raise(Failure("TemplateRenderError", << >>))
            /\ todo' = {}
    /\ UNCHANGED << cluster, db >>

\* upgrade() from the two parsed manifests on: the three key sets are taken
\* and the first loop that has a pass is entered.
UpgradeDiff ==
    /\ pc = "upgrade_diff"
    /\ pc' = upgrade_next("entry", old_template_schema, manifest).pc
    /\ todo' = upgrade_next("entry", old_template_schema, manifest).todo
    /\ UNCHANGED << cluster, db, frame, application, index, installed_charts, rollback,
                    results, updated, helm_calls, db_calls, error, result >>

\* One pass of the loop over charts_to_install (a set: any order).
UpgradeInstall ==
    /\ pc = "upgrade_install"
    /\ \E release_name \in todo, ok \in BOOLEAN :
          LET chart == chart_mapping(manifest)[release_name] IN
          /\ helm_calls' = Append(helm_calls, HelmCall("install", chart.name, dry_run, ok))
          /\ cluster' = install_chart(cluster, chart.name, dry_run, ok)
          /\ IF ok
             THEN /\ results' = Put(results, chart.name, chart.chart)
                  /\ installed_charts' = Append(installed_charts, chart.name)
                  /\ IF todo \ {release_name} = {}
                     THEN /\ pc' = upgrade_next("install", old_template_schema, manifest).pc
                          /\ todo' = upgrade_next("install", old_template_schema, manifest).todo
                     ELSE /\ pc' = "upgrade_install"
                          /\ todo' = todo \ {release_name}
                  /\ UNCHANGED << rollback, error >>
             ELSE /\ error' = HelmException("install", chart.name)
                  /\ rollback' = IF compensates(dry_run)
                                 THEN upgrade_rollback_charts(installed_charts)
                                 ELSE << >>
                  /\ pc' = IF rollback' = << >> THEN "raised" ELSE "upgrade_rollback"
                  /\ UNCHANGED << results, installed_charts, todo >>
    /\ UNCHANGED << db, frame, application, index, updated, db_calls, result >>

\* One pass of the clean-up loop over reversed(installed_charts); after the
\* last pass the install failure is re-raised.
UpgradeRollback ==
    /\ pc = "upgrade_rollback"
    /\ rollback # << >>
    /\ \E ok \in BOOLEAN :
          /\ helm_calls' = Append(helm_calls,
                                  HelmCall("uninstall", Head(rollback), DefaultDryRun, ok))
          /\ cluster' = uninstall_release(cluster, Head(rollback), DefaultDryRun, ok)
    /\ rollback' = Tail(rollback)
    /\ pc' = IF Tail(rollback) = << >> THEN "raised" ELSE "upgrade_rollback"
    /\ UNCHANGED << db, frame, application, index, todo, installed_charts, results,
                    updated, db_calls, error, result >>

\* One pass of the loop over releases_to_update: update_release is awaited
\* outside any try block, so its HelmException leaves upgrade().
UpgradeUpdate ==
    /\ pc = "upgrade_update"
    /\ \E release_name \in todo, ok \in BOOLEAN :
          LET chart == chart_mapping(manifest)[release_name] IN
          /\ helm_calls' = Append(helm_calls, HelmCall("update", release_name, dry_run, ok))
          /\ cluster' = update_release(cluster, release_name, dry_run, ok)
          /\ IF ok
             THEN /\ updated' = Put(updated, release_name, chart.chart)
                  /\ IF todo \ {release_name} = {}
                     THEN /\ pc' = upgrade_next("update", old_template_schema, manifest).pc
                          /\ todo' = upgrade_next("update", old_template_schema, manifest).todo
                     ELSE /\ pc' = "upgrade_update"
                          /\ todo' = todo \ {release_name}
                  /\ UNCHANGED error
             ELSE /\ Raise(HelmException("update", release_name))
                  /\ UNCHANGED << updated, todo >>
    /\ UNCHANGED << db, frame, application, index, installed_charts, rollback, results,
                    db_calls, result >>

\* Mutant: the uninstall is awaited outside any try block, so its
\* HelmException leaves upgrade().
UpgradeRemoveRaising ==
    /\ pc = "upgrade_remove"
    /\ \E release_name \in todo, ok \in BOOLEAN :
          LET chart == chart_mapping(old_template_schema)[release_name] IN
          /\ helm_calls' = Append(helm_calls, HelmCall("uninstall", chart.name, dry_run, ok))
          /\ cluster' = uninstall_release(cluster, chart.name, dry_run, ok)
          /\ IF ok
             THEN /\ todo' = todo \ {release_name}
                  /\ pc' = IF todo \ {release_name} = {} THEN "upgrade_save"
                           ELSE "upgrade_remove"
                  /\ UNCHANGED error
             ELSE /\ Raise(HelmException("uninstall", chart.name))
                  /\ UNCHANGED todo
    /\ UNCHANGED << db, frame, application, index, installed_charts, rollback, results,
                    updated, db_calls, result >>

\* One pass of the loop over releases_to_remove: a HelmException is logged
\* and dropped.
UpgradeRemove ==
    /\ pc = "upgrade_remove"
    /\ \E release_name \in todo, ok \in BOOLEAN :
          LET chart == chart_mapping(old_template_schema)[release_name] IN
          /\ helm_calls' = Append(helm_calls, HelmCall("uninstall", chart.name, dry_run, ok))
          /\ cluster' = uninstall_release(cluster, chart.name, dry_run, ok)
          /\ todo' = todo \ {release_name}
          /\ pc' = IF todo \ {release_name} = {} THEN "upgrade_save" ELSE "upgrade_remove"
    /\ UNCHANGED << db, frame, application, index, installed_charts, rollback, results,
                    updated, db_calls, error, result >>

\* The application object after upgrade() assigned its three fields.
upgraded_application(app, m, t, inputs) ==
    [app EXCEPT !.manifest = m, !.template = t, !.user_inputs = inputs]

\* Mutant: the record is looked up again before the save, and a record that
\* is gone is not written.
UpgradeSaveIfStored ==
    /\ pc = "upgrade_save"
    /\ IF persists(dry_run) /\ db # NoRecord
       THEN /\ application' = upgraded_application(application, manifest, template, user_inputs)
            /\ db' = application'
            /\ db_calls' = Append(db_calls, "save")
       ELSE UNCHANGED << application, db, db_calls >>
    /\ result' = [kind |-> "upgrade",
                  installed_releases |-> results,
                  updated_releases |-> updated,
                  uninstalled_releases |-> releases_to_remove(old_template_schema, manifest)]
    /\ pc' = "returned"
    /\ UNCHANGED << cluster, frame, index, todo, installed_charts, rollback, results,
                    updated, helm_calls, error >>

\* Mutant: the returned list names only the releases whose uninstall call
\* succeeded.
UpgradeSaveReportingRemoved ==
    /\ pc = "upgrade_save"
    /\ IF persists(dry_run)
       THEN /\ application' = upgraded_application(application, manifest, template, user_inputs)
            /\ db' = application'
            /\ db_calls' = Append(db_calls, "save")
       ELSE UNCHANGED << application, db, db_calls >>
    /\ result' = [kind |-> "upgrade",
                  installed_releases |-> results,
                  updated_releases |-> updated,
                  uninstalled_releases |->
                      {helm_calls[i].release : i \in
                          {j \in 1..Len(helm_calls) :
                              helm_calls[j].kind = "uninstall" /\ helm_calls[j].ok}}]
    /\ pc' = "returned"
    /\ UNCHANGED << cluster, frame, index, todo, installed_charts, rollback, results,
                    updated, helm_calls, error >>

\* After the loops: db.save unless dry_run, then return.
UpgradeSave ==
    /\ pc = "upgrade_save"
    /\ IF persists(dry_run)
       THEN /\ application' = upgraded_application(application, manifest, template, user_inputs)
            /\ db' = application'
            /\ db_calls' = Append(db_calls, "save")
       ELSE UNCHANGED << application, db, db_calls >>
    /\ result' = [kind |-> "upgrade",
                  installed_releases |-> results,
                  updated_releases |-> updated,
                  uninstalled_releases |-> releases_to_remove(old_template_schema, manifest)]
    /\ pc' = "returned"
    /\ UNCHANGED << cluster, frame, index, todo, installed_charts, rollback, results,
                    updated, helm_calls, error >>

\* ------------------------------------------------------- update_user_inputs

\* The immutable inputs of the stored manifest's schema, in schema order.
immutable_inputs(schema) ==
    Names(SelectSeq(schema, LAMBDA d : d.immutable))

\* The immutable inputs whose new value differs from the stored one.
violating_inputs(schema, inputs, stored) ==
    SelectSeq(immutable_inputs(schema), LAMBDA n : inputs[n] # stored[n])

\* Mutant: the key sets are compared with "not a subset" instead of "not
\* equal", so a call that drops a key passes the comparison.
update_check_keys_subset(app, inputs) ==
    IF ~validate_inputs(app.manifest.inputs, inputs)
    THEN Failure("InvalidInputs", << >>)
    ELSE IF ~(DOMAIN inputs \subseteq DOMAIN app.user_inputs)
    THEN Failure("InvalidUserInputs", << >>)
    ELSE IF \E n \in Range(immutable_inputs(app.manifest.inputs)) : n \notin DOMAIN inputs
    THEN Failure("KeyError", << >>)
    ELSE IF violating_inputs(app.manifest.inputs, inputs, app.user_inputs) # << >>
    THEN Failure("InvalidUserInputs",
                 violating_inputs(app.manifest.inputs, inputs, app.user_inputs))
    ELSE NoError

\* update_user_inputs(): the checks before any chart operation, in order.
\* The result is the failure raised, or NoError.
update_check(app, inputs) ==
    IF ~validate_inputs(app.manifest.inputs, inputs)
    THEN Failure("InvalidInputs", << >>)
    ELSE IF DOMAIN inputs # DOMAIN app.user_inputs
    THEN Failure("InvalidUserInputs", << >>)
    ELSE IF \E n \in Range(immutable_inputs(app.manifest.inputs)) : n \notin DOMAIN inputs
    THEN Failure("KeyError", << >>)
    ELSE IF violating_inputs(app.manifest.inputs, inputs, app.user_inputs) # << >>
    THEN Failure("InvalidUserInputs",
                 violating_inputs(app.manifest.inputs, inputs, app.user_inputs))
    ELSE NoError

\* Mutant: the CommonException built for the releases the new manifest no
\* longer declares is raised.
UpdateInputsCallRaisingAbsent(inputs, dry) ==
    /\ Idle
    /\ db # NoRecord
    /\ IF update_check(db, inputs) = NoError
       THEN /\ Enter("update_user_inputs", dry, db.template, inputs, db, db.manifest,
                     render_template(db.template, inputs))
            /\ IF DOMAIN chart_mapping(db.manifest)
                    \ DOMAIN chart_mapping(render_template(db.template, inputs)) # {}
               THEN Raise(Failure("CommonException", << >>))
               ELSE /\ pc' = "update_release"
                    /\ error' = NoError
       ELSE /\ Enter("update_user_inputs", dry, db.template, inputs, db, db.manifest,
                     NoManifest)
            /\ Raise(update_check(db, inputs))
    /\ todo' = {}
    /\ UNCHANGED << cluster, db >>

\* update_user_inputs(): validation, then render_template of the stored
\* template with the new inputs. absent_release_names is computed and the
\* CommonException built from it is dropped, so nothing depends on it.
UpdateInputsCall(inputs, dry) ==
    /\ Idle
    /\ db # NoRecord
    /\ IF update_check(db, inputs) = NoError
       THEN /\ Enter("update_user_inputs", dry, db.template, inputs, db, db.manifest,
                     render_template(db.template, inputs))
            /\ pc' = "update_release"
            /\ error' = NoError
       ELSE /\ Enter("update_user_inputs", dry, db.template, inputs, db, db.manifest,
                     NoManifest)
            /\ Raise(update_check(db, inputs))
    /\ todo' = {}
    /\ UNCHANGED << cluster, db >>

\* Mutant: a release the stored manifest does not declare is installed
\* instead of updated.
UpdateReleaseInstalling ==
    /\ pc = "update_release"
    /\ index <= Len(charts)
    /\ LET chart == charts[index]
           known == \E i \in 1..Len(old_template_schema.charts) :
                        old_template_schema.charts[i].name = chart.name IN
       \E ok \in BOOLEAN :
          /\ helm_calls' = Append(helm_calls,
                 HelmCall(IF known THEN "update" ELSE "install", chart.name, dry_run, ok))
          /\ cluster' = IF known THEN update_release(cluster, chart.name, dry_run, ok)
                        ELSE install_chart(cluster, chart.name, dry_run, ok)
          /\ IF ok
             THEN /\ results' = Put(results, chart.name, chart.chart)
                  /\ index' = index + 1
                  /\ pc' = IF index + 1 > Len(charts) THEN "update_save" ELSE "update_release"
                  /\ UNCHANGED error
             ELSE /\ Raise(HelmException("update", chart.name))
                  /\ UNCHANGED << results, index >>
    /\ UNCHANGED << db, frame, application, todo, installed_charts, rollback, updated,
                    db_calls, result >>

\* Mutant: db.save sits inside the loop, so the record is written after
\* every update that succeeded.
UpdateReleaseSavingEach ==
    /\ pc = "update_release"
    /\ index <= Len(charts)
    /\ LET chart == charts[index] IN
       \E ok \in BOOLEAN :
          /\ helm_calls' = Append(helm_calls, HelmCall("update", chart.name, dry_run, ok))
          /\ cluster' = update_release(cluster, chart.name, dry_run, ok)
          /\ IF ok
             THEN /\ results' = Put(results, chart.name, chart.chart)
                  /\ index' = index + 1
                  /\ pc' = IF index + 1 > Len(charts) THEN "update_save" ELSE "update_release"
                  /\ IF persists(dry_run)
                     THEN /\ application' = [application EXCEPT !.manifest = manifest]
                          /\ db' = application'
                          /\ db_calls' = Append(db_calls, "save")
                     ELSE UNCHANGED << application, db, db_calls >>
                  /\ UNCHANGED error
             ELSE /\ Raise(HelmException("update", chart.name))
                  /\ UNCHANGED << results, index, application, db, db_calls >>
    /\ UNCHANGED << frame, todo, installed_charts, rollback, updated, result >>

\* Mutant: the HelmException of an update is caught and dropped, and the
\* loop goes on with the next release.
UpdateReleaseSwallowing ==
    /\ pc = "update_release"
    /\ index <= Len(charts)
    /\ LET chart == charts[index] IN
       \E ok \in BOOLEAN :
          /\ helm_calls' = Append(helm_calls, HelmCall("update", chart.name, dry_run, ok))
          /\ cluster' = update_release(cluster, chart.name, dry_run, ok)
          /\ results' = IF ok THEN Put(results, chart.name, chart.chart) ELSE results
          /\ index' = index + 1
          /\ pc' = IF index + 1 > Len(charts) THEN "update_save" ELSE "update_release"
          /\ UNCHANGED error
    /\ UNCHANGED << db, frame, application, todo, installed_charts, rollback, updated,
                    db_calls, result >>

\* One pass of the loop over chart_mapping.items() (declaration order):
\* update_release, whose HelmException leaves update_user_inputs().
UpdateRelease ==
    /\ pc = "update_release"
    /\ index <= Len(charts)
    /\ LET chart == charts[index] IN
       \E ok \in BOOLEAN :
          /\ helm_calls' = Append(helm_calls, HelmCall("update", chart.name, dry_run, ok))
          /\ cluster' = update_release(cluster, chart.name, dry_run, ok)
          /\ IF ok
             THEN /\ results' = Put(results, chart.name, chart.chart)
                  /\ index' = index + 1
                  /\ pc' = IF index + 1 > Len(charts) THEN "update_save" ELSE "update_release"
                  /\ UNCHANGED error
             ELSE /\ Raise(HelmException("update", chart.name))
                  /\ UNCHANGED << results, index >>
    /\ UNCHANGED << db, frame, application, todo, installed_charts, rollback, updated,
                    db_calls, result >>

\* The application object after update_user_inputs() assigned its manifest.
updated_application(app, m) == [app EXCEPT !.manifest = m]

\* After the loop: db.save unless dry_run, then return the update results.
UpdateSave ==
    /\ pc = "update_save"
    /\ IF persists(dry_run)
       THEN /\ application' = updated_application(application, manifest)
            /\ db' = application'
            /\ db_calls' = Append(db_calls, "save")
       ELSE UNCHANGED << application, db, db_calls >>
    /\ result' = [kind |-> "update_user_inputs", results |-> results]
    /\ pc' = "returned"
    /\ UNCHANGED << cluster, frame, index, todo, installed_charts, rollback, results,
                    updated, helm_calls, error >>

\* --------------------------------------------------------------- terminate

\* terminate(): parse the stored manifest.
TerminateCall ==
    /\ Idle
    /\ db # NoRecord
    /\ Enter("terminate", DefaultDryRun, db.template, db.user_inputs, db, db.manifest,
             db.manifest)
    /\ pc' = IF Len(db.manifest.charts) = 0 THEN "terminate_delete" ELSE "terminate_release"
    /\ error' = NoError
    /\ todo' = {}
    /\ UNCHANGED << cluster, db >>

\* Mutant: the HelmException of an uninstall is not caught and leaves
\* terminate().
TerminateReleaseRaising ==
    /\ pc = "terminate_release"
    /\ index <= Len(charts)
    /\ \E ok \in BOOLEAN :
          /\ helm_calls' = Append(helm_calls,
                                  HelmCall("uninstall", charts[index].name, DefaultDryRun, ok))
          /\ cluster' = uninstall_release(cluster, charts[index].name, DefaultDryRun, ok)
          /\ IF ok
             THEN /\ index' = index + 1
                  /\ pc' = IF index + 1 > Len(charts)
                           THEN "terminate_delete" ELSE "terminate_release"
                  /\ UNCHANGED error
             ELSE /\ Raise(HelmException("uninstall", charts[index].name))
                  /\ UNCHANGED index
    /\ UNCHANGED << db, frame, application, todo, installed_charts, rollback, results,
                    updated, db_calls, result >>

\* One pass of the loop over manifest_schema.charts: uninstall_release, its
\* HelmException logged and dropped.
TerminateRelease ==
    /\ pc = "terminate_release"
    /\ index <= Len(charts)
    /\ \E ok \in BOOLEAN :
          /\ helm_calls' = Append(helm_calls,
                                  HelmCall("uninstall", charts[index].name, DefaultDryRun, ok))
          /\ cluster' = uninstall_release(cluster, charts[index].name, DefaultDryRun, ok)
    /\ index' = index + 1
    /\ pc' = IF index + 1 > Len(charts) THEN "terminate_delete" ELSE "terminate_release"
    /\ UNCHANGED << db, frame, application, todo, installed_charts, rollback, results,
                    updated, db_calls, error, result >>

\* After the loop: db.delete.
TerminateDelete ==
    /\ pc = "terminate_delete"
    /\ db' = NoRecord
    /\ db_calls' = Append(db_calls, "delete")
    /\ result' = [kind |-> "terminate"]
    /\ pc' = "returned"
    /\ UNCHANGED << cluster, frame, application, index, todo, installed_charts, rollback,
                    results, updated, helm_calls, error >>

\* ------------------------------------------------------------ request scope

\* The request that made the call ends: the manager built for it and the
\* call's locals are gone, the cluster and the repository stay.
EndCall ==
    /\ Finished
    /\ pc' = "idle"
    /\ Enter("none", FALSE, NoTemplate, NoInputs, NoRecord, NoManifest, NoManifest)
    /\ todo' = {}
    /\ error' = NoError
    /\ UNCHANGED << cluster, db >>

\* ----------------------------------------------------------- specification

Next ==
    \/ \E t \in TemplateIds, inputs \in InputMaps, dry \in BOOLEAN : InstallCall(t, inputs, dry)
    \/ InstallChart
    \/ InstallRollback
    \/ InstallCreate
    \/ \E t \in TemplateIds, dry \in BOOLEAN : UpgradeCall(t, dry)
    \/ UpgradeInstall
    \/ UpgradeRollback
    \/ UpgradeUpdate
    \/ UpgradeRemove
    \/ UpgradeSave
    \/ \E inputs \in InputMaps, dry \in BOOLEAN : UpdateInputsCall(inputs, dry)
    \/ UpdateRelease
    \/ UpdateSave
    \/ TerminateCall
    \/ TerminateRelease
    \/ TerminateDelete
    \/ EndCall

Spec == Init /\ [][Next]_vars

\* -------------------------------------- terminate beside an upgrade in hand

\* The positions of an upgrade() between its entry and its return or raise.
UpgradeInFlight ==
    {"upgrade_install", "upgrade_rollback", "upgrade_update", "upgrade_remove",
     "upgrade_save"}

\* Another request calls terminate() on the application while the upgrade is
\* in flight: no lock is taken (ApplicationManager holds none), the record
\* it was given is the stored one, whose manifest it parses.
ConcurrentTerminateCall ==
    /\ concurrent.pc = "idle"
    /\ op = "upgrade"
    /\ pc \in UpgradeInFlight
    /\ db # NoRecord
    /\ concurrent' = [pc |-> IF Len(db.manifest.charts) = 0
                             THEN "terminate_delete" ELSE "terminate_release",
                      index |-> 1, manifest |-> db.manifest, entered_at |-> pc]
    /\ UNCHANGED << cluster, entry_cluster, db, op, pc, dry_run, template, user_inputs,
                    application, old_template_schema, manifest, index, todo,
                    installed_charts, rollback, results, updated, helm_calls, db_calls,
                    error, result >>

\* One pass of the loop of that terminate(): uninstall_release, its
\* HelmException logged and dropped.
ConcurrentTerminateRelease ==
    /\ concurrent.pc = "terminate_release"
    /\ LET release == concurrent.manifest.charts[concurrent.index].name IN
       \E ok \in BOOLEAN :
          /\ cluster' = uninstall_release(cluster, release, DefaultDryRun, ok)
          /\ concurrent' =
                [concurrent EXCEPT
                    !.index = @ + 1,
                    !.pc = IF concurrent.index + 1 > Len(concurrent.manifest.charts)
                           THEN "terminate_delete" ELSE "terminate_release"]
    /\ UNCHANGED << entry_cluster, db, op, pc, dry_run, template, user_inputs,
                    application, old_template_schema, manifest, index, todo,
                    installed_charts, rollback, results, updated, helm_calls, db_calls,
                    error, result >>

\* After the loop of that terminate(): db.delete.
ConcurrentTerminateDelete ==
    /\ concurrent.pc = "terminate_delete"
    /\ db' = NoRecord
    /\ db_calls' = Append(db_calls, "delete")
    /\ concurrent' = [concurrent EXCEPT !.pc = "returned"]
    /\ UNCHANGED << cluster, entry_cluster, op, pc, dry_run, template, user_inputs,
                    application, old_template_schema, manifest, index, todo,
                    installed_charts, rollback, results, updated, helm_calls, error,
                    result >>

\* The steps of the upgrade in hand.
UpgradeStep ==
    \/ UpgradeInstall
    \/ UpgradeRollback
    \/ UpgradeUpdate
    \/ UpgradeRemove
    \/ UpgradeSave

\* The calls of Next, one at a time, until a terminate() of another request
\* enters beside an upgrade; from then on the steps of the two, in any order.
NextConcurrent ==
    \/ concurrent.pc = "idle" /\ Next
    \/ concurrent.pc # "idle" /\ UpgradeStep
    \/ ConcurrentTerminateCall
    \/ ConcurrentTerminateRelease
    \/ ConcurrentTerminateDelete

SpecConcurrent == Init /\ [][NextConcurrent]_vars

\* --------------------------------------------------- a cancelled install

\* The task is cancelled while install() awaits install_chart: the await
\* raises CancelledError, which "except HelmException" (line 62) does not
\* match, so it leaves install() at once. The chart operation may or may not
\* have taken effect in the cluster.
InstallCancelled ==
    /\ pc = "install_chart"
    /\ index <= Len(charts)
    /\ \E landed \in BOOLEAN :
          /\ helm_calls' = Append(helm_calls,
                                  HelmCall("install", charts[index].name, dry_run, FALSE))
          /\ cluster' = install_chart(cluster, charts[index].name, dry_run, landed)
    /\ Raise(Failure("CancelledError", << >>))
    /\ UNCHANGED << db, frame, application, index, todo, installed_charts, rollback,
                    results, updated, db_calls, result >>

\* The same while upgrade() awaits install_chart ("except HelmException",
\* line 139).
UpgradeInstallCancelled ==
    /\ pc = "upgrade_install"
    /\ \E release_name \in todo, landed \in BOOLEAN :
          /\ helm_calls' = Append(helm_calls,
                                  HelmCall("install", release_name, dry_run, FALSE))
          /\ cluster' = install_chart(cluster, release_name, dry_run, landed)
    /\ Raise(Failure("CancelledError", << >>))
    /\ UNCHANGED << db, frame, application, index, todo, installed_charts, rollback,
                    results, updated, db_calls, result >>

NextCancelled ==
    \/ Next
    \/ InstallCancelled
    \/ UpgradeInstallCancelled

SpecCancelled == Init /\ [][NextCancelled]_vars

\* ------------------------------------------------ successful calls only

\* The call in hand is no dry run, none of its chart calls failed and it has
\* not raised.
Successful ==
    /\ ~dry_run
    /\ pc # "raised"
    /\ \A i \in 1..Len(helm_calls) : helm_calls[i].ok

\* The calls of Next, restricted to non-dry-run calls in which every chart
\* operation succeeds and nothing is raised.
NextSuccessful == Next /\ Successful'

SpecSuccessful == Init /\ [][NextSuccessful]_vars

\* -------------------------------------------- upgrade over any two mappings

\* A manifest that declares the releases of S, in the order of ReleaseOrder.
ReleaseOrder == << "A", "B", "C", "D" >>
ManifestOver(S) ==
    LET names == SelectSeq(ReleaseOrder, LAMBDA r : r \in S) IN
    [name |-> "app", inputs |-> TemplateInputs("T1"),
     charts |-> [i \in 1..Len(names) |-> Chart(names[i], "chart", "v1", 1)]]

\* upgrade() with both manifests parsed: the stored manifest and the newly
\* rendered one declare any two sets of releases, the cluster holds the
\* releases of the stored one.
DiffInit ==
    \E A \in SUBSET Releases, B \in SUBSET Releases, dry \in BOOLEAN :
        /\ cluster = A
        /\ entry_cluster = A
        /\ db = new_application(ManifestOver(A), [region |-> 1], "T1")
        /\ op = "upgrade"
        /\ pc = "upgrade_diff"
        /\ dry_run = dry
        /\ template = "T1"
        /\ user_inputs = merge_inputs(input_defaults("T1"), [region |-> 1])
        /\ application = db
        /\ old_template_schema = ManifestOver(A)
        /\ manifest = ManifestOver(B)
        /\ index = 1
        /\ todo = {}
        /\ installed_charts = << >>
        /\ rollback = << >>
        /\ results = EmptyMap
        /\ updated = EmptyMap
        /\ helm_calls = << >>
        /\ db_calls = << >>
        /\ error = NoError
        /\ result = NoResult
        /\ concurrent = NoTerminate

DiffNext ==
    \/ UpgradeDiff
    \/ UpgradeInstall
    \/ UpgradeRollback
    \/ UpgradeUpdate
    \/ UpgradeRemove
    \/ UpgradeSave

SpecDiff == DiffInit /\ [][DiffNext]_vars

\* ------------------------------------------------------------ observations

\* The chart-client calls of one kind issued by the call in hand, in order.
Calls(kind) == SelectSeq(helm_calls, LAMBDA c : c.kind = kind)

\* How many calls of a kind a release received in the call in hand.
Count(kind, release) ==
    Cardinality({i \in 1..Len(helm_calls) :
                    helm_calls[i].kind = kind /\ helm_calls[i].release = release})

\* The release names a manifest declares.
Declared(m) == {m.charts[i].name : i \in 1..Len(m.charts)}

\* The release names the persisted record's manifest declares.
PersistedReleases == IF db = NoRecord THEN {} ELSE Declared(db.manifest)

\* An install call of the call in hand failed.
InstallFailed == \E i \in 1..Len(helm_calls) :
                    helm_calls[i].kind = "install" /\ ~helm_calls[i].ok

\* A call of the given kind failed in the call in hand.
SomeFailed(kind) == \E i \in 1..Len(helm_calls) :
                       helm_calls[i].kind = kind /\ ~helm_calls[i].ok

\* ------------------------------------------------------------------ claims

ConsistentAtEntry == entry_cluster = Declared(old_template_schema)

\* No real (non-dry-run) uninstall of the call in hand failed.
NoFailedUninstall ==
    \A i \in 1..Len(helm_calls) :
        (helm_calls[i].kind = "uninstall" /\ ~helm_calls[i].dry_run) => helm_calls[i].ok

\* The call in hand is no upgrade that an update failure ended.
NoFailedUpgradeUpdate == ~(op = "upgrade" /\ error.kind = "update")

\* The call in hand is no update_user_inputs whose rendering changed the
\* set of declared releases.
SameReleases ==
    (op = "update_user_inputs" /\ pc = "returned")
        => Declared(manifest) = Declared(old_template_schema)

C2_RollbackCompleteness ==
    (op = "install" /\ pc = "raised" /\ ~dry_run /\ InstallFailed) =>
        LET k == Len(Calls("install")) IN
        /\ \A i \in 1..k : /\ helm_calls[i].kind = "install"
                           /\ helm_calls[i].release = charts[i].name
                           /\ helm_calls[i].ok = (i < k)
        /\ Len(helm_calls) = 2 * k - 1
        /\ \A j \in 1..(k - 1) : /\ helm_calls[k + j].kind = "uninstall"
                                 /\ helm_calls[k + j].release = charts[k - j].name
        /\ \A i \in k..Len(charts) : Count("uninstall", charts[i].name) = 0

\* C2 witness: the third chart failed, two uninstalls followed and one of
\* them failed.
C2_Witness ==
    /\ op = "install" /\ pc = "raised" /\ ~dry_run
    /\ Len(Calls("install")) = 3
    /\ Len(Calls("uninstall")) = 2
    /\ SomeFailed("uninstall")

\* C3: once an install of install() has failed the call never returns a
\* result; when compensating uninstalls failed too the clean-up still visited
\* every installed chart and the failure raised is the install failure.
C3_OriginalFailureSurfaces ==
    (op = "install" /\ InstallFailed) =>
        LET k == Len(Calls("install")) IN
        /\ pc \in {"install_rollback", "raised"}
        /\ result = NoResult
        /\ error = HelmException("install", charts[k].name)
        /\ (pc = "raised" /\ ~dry_run) => Len(Calls("uninstall")) = k - 1

\* C3 witness: the first of two compensating uninstalls failed, the second
\* was still issued, and the install failure was raised.
C3_Witness ==
    /\ op = "install" /\ pc = "raised"
    /\ Len(Calls("uninstall")) = 2
    /\ ~Calls("uninstall")[1].ok
    /\ error.kind = "install"

\* C4 (as stated): a dry-run install that failed on the k-th chart, k > 1,
\* has issued an uninstall for each of the first k-1 charts when it raises.
C4_Original ==
    (op = "install" /\ pc = "raised" /\ dry_run /\ InstallFailed) =>
        \A i \in 1..(Len(Calls("install")) - 1) : Count("uninstall", charts[i].name) >= 1

\* C4 (amended): a dry-run install that failed on the k-th chart raises the
\* install failure at once and issues no uninstall call: every call it made
\* is a dry-run install, and the cluster is as it was.
C4_DryRunNoRollback ==
    (op = "install" /\ dry_run /\ InstallFailed) =>
        LET k == Len(Calls("install")) IN
        /\ pc = "raised"
        /\ Len(helm_calls) = k
        /\ Calls("uninstall") = << >>
        /\ \A i \in 1..k : helm_calls[i].dry_run
        /\ error = HelmException("install", charts[k].name)
        /\ cluster = entry_cluster

\* C4 witness: a dry-run install failed on its third chart.
C4_Witness ==
    /\ op = "install" /\ pc = "raised" /\ dry_run
    /\ Len(helm_calls) = 3
    /\ ~helm_calls[3].ok

\* Every chart of the rendering of the call's template with its inputs
\* received a successful install.
EveryChartInstalled ==
    LET cs == render_template(template, user_inputs).charts IN
    \A i \in 1..Len(cs) :
        \E j \in 1..Len(helm_calls) : /\ helm_calls[j].kind = "install"
                                      /\ helm_calls[j].release = cs[i].name
                                      /\ helm_calls[j].ok

\* C5: a finished install has created a record exactly when it was no dry
\* run, its inputs were valid and every chart install succeeded; it then
\* created one record, running, holding the rendering and the given inputs.
\* Otherwise, and whenever it raised, no record exists.
C5_InstallCreatesRecord ==
    (op = "install" /\ Finished) =>
        LET created == db_calls = << "create" >> IN
        /\ created <=> (/\ ~dry_run
                        /\ validate_inputs(TemplateInputs(template), user_inputs)
                        /\ EveryChartInstalled)
        /\ created => /\ pc = "returned"
                      /\ db.status = "running"
                      /\ db.manifest = render_template(template, user_inputs)
                      /\ db.user_inputs = user_inputs
                      /\ db.template = template
                      /\ result.application = db
        /\ ~created => db = NoRecord /\ db_calls = << >>
        /\ pc = "raised" => ~created

\* C5 witness: a real install of a three-chart manifest created its record.
C5_Witness ==
    /\ op = "install" /\ pc = "returned" /\ ~dry_run
    /\ db # NoRecord
    /\ Len(db.manifest.charts) = 3

\* The releases of the old (stored) and of the new (rendered) manifest of
\* the upgrade in hand.
OldReleases == Declared(old_template_schema)
NewReleases == Declared(manifest)

\* C6: a dry-run install, upgrade or update_user_inputs that returned has
\* made no repository write and left the record as it was, and every chart
\* call it made (one per chart operation of the call) carried dry_run.
C6_DryRunLeavesRepository ==
    (dry_run /\ pc = "returned" /\ op \in {"install", "upgrade", "update_user_inputs"}) =>
        /\ db_calls = << >>
        /\ db = application
        /\ \A i \in 1..Len(helm_calls) : helm_calls[i].dry_run
        /\ Len(helm_calls) = IF op = "upgrade"
                             THEN Cardinality(OldReleases \cup NewReleases)
                             ELSE Len(charts)
        /\ cluster = entry_cluster

\* C6 witness: a dry-run upgrade returned after an install, an update and
\* an uninstall call.
C6_Witness ==
    /\ dry_run /\ pc = "returned" /\ op = "upgrade"
    /\ Calls("install") # << >>
    /\ Calls("update") # << >>
    /\ Calls("uninstall") # << >>
    /\ db # NoRecord

\* C7: a non-dry-run upgrade ended by an install failure has uninstalled
\* exactly the releases it installed before, last installed first, has made
\* no update call and touched no release of the old manifest, raises the
\* install failure and leaves the record as it was.
C7_UpgradeRollback ==
    (op = "upgrade" /\ pc = "raised" /\ ~dry_run /\ error.kind = "install") =>
        LET k == Len(Calls("install")) IN
        /\ \A i \in 1..k : /\ helm_calls[i].kind = "install"
                           /\ helm_calls[i].ok = (i < k)
        /\ Len(helm_calls) = 2 * k - 1
        /\ \A j \in 1..(k - 1) : /\ helm_calls[k + j].kind = "uninstall"
                                 /\ helm_calls[k + j].release = helm_calls[k - j].release
        /\ \A i \in 1..Len(helm_calls) : helm_calls[i].release \in NewReleases \ OldReleases
        /\ \A r \in OldReleases : Count("update", r) = 0 /\ Count("uninstall", r) = 0
        /\ error = HelmException("install", helm_calls[k].release)
        /\ db_calls = << >>
        /\ db = application
        /\ db.manifest = old_template_schema

\* C7 witness: the third install of an upgrade failed and two compensating
\* uninstalls followed, while the old manifest had a release to remove.
C7_Witness ==
    /\ op = "upgrade" /\ pc = "raised" /\ ~dry_run
    /\ Len(Calls("install")) = 3
    /\ Len(Calls("uninstall")) = 2
    /\ OldReleases \ NewReleases # {}

\* C8: an upgrade in which an update call failed does not raise: it returns
\* and, when not a dry run, has persisted the new manifest.
C8_UpdateFailureNotFatal ==
    (op = "upgrade" /\ Finished /\ SomeFailed("update")) =>
        /\ pc = "returned"
        /\ ~dry_run => db.manifest = manifest

\* What upgrade() does instead: a failed update call is the last chart call,
\* the upgrade raises its HelmException, no to_remove uninstall and no
\* compensating uninstall is issued, no result is returned and the record
\* is not saved.
UpdateFailureEndsUpgrade ==
    (op = "upgrade" /\ SomeFailed("update")) =>
        LET n == Len(helm_calls) IN
        /\ pc = "raised"
        /\ helm_calls[n].kind = "update" /\ ~helm_calls[n].ok
        /\ \A i \in 1..(n - 1) : helm_calls[i].ok
        /\ error = HelmException("update", helm_calls[n].release)
        /\ helm_calls[n].release \notin DOMAIN updated
        /\ Calls("uninstall") = << >>
        /\ result = NoResult
        /\ db_calls = << >>
        /\ db = application
        /\ db.manifest = old_template_schema

\* A real upgrade had installed a release and had releases left to remove
\* when an update failed.
UpdateFailureLeavesInstalls ==
    /\ op = "upgrade" /\ pc = "raised" /\ ~dry_run
    /\ error.kind = "update"
    /\ installed_charts # << >>
    /\ OldReleases \ NewReleases # {}
    /\ Cardinality(OldReleases \cap NewReleases) >= 1

\* An uninstall of a release the new manifest drops failed.
RemovalFailed ==
    \E i \in 1..Len(helm_calls) : /\ helm_calls[i].kind = "uninstall"
                                  /\ ~helm_calls[i].ok
                                  /\ helm_calls[i].release \in OldReleases \ NewReleases

\* C9: a failed uninstall of a to_remove release never ends the upgrade with
\* a failure; the upgrade returns after one uninstall call for every
\* to_remove release and, when not a dry run, has saved the new manifest,
\* which declares none of the removed releases.
C9_RemoveFailureSwallowed ==
    (op = "upgrade" /\ RemovalFailed) =>
        /\ pc \in {"upgrade_remove", "upgrade_save", "returned"}
        /\ error = NoError
        /\ pc \in {"upgrade_save", "returned"} =>
              \A r \in OldReleases \ NewReleases : Count("uninstall", r) = 1
        /\ pc = "returned" =>
              /\ result.kind = "upgrade"
              /\ ~dry_run => /\ db_calls = << "save" >>
                             /\ db.manifest = manifest
                             /\ \A i \in 1..Len(helm_calls) :
                                   (helm_calls[i].kind = "uninstall" /\ ~helm_calls[i].ok)
                                       => helm_calls[i].release \notin PersistedReleases

\* C9 witness: the first of three removals failed, the other two were
\* still issued, and the real upgrade returned with the record saved.
C9_Witness ==
    /\ op = "upgrade" /\ pc = "returned" /\ ~dry_run
    /\ Len(Calls("uninstall")) = 3
    /\ ~Calls("uninstall")[1].ok
    /\ db_calls = << "save" >>

\* The number a release must have received of a call kind: one when it is
\* in the set, none otherwise.
Once(release, set) == IF release \in set THEN 1 ELSE 0

\* C10: a non-dry-run upgrade that returned has issued one install per
\* release only in the new mapping, one update per release in both, one
\* uninstall per release only in the old mapping and nothing else, and has
\* saved once: the new rendering, the new template and the merged inputs.
C10_UpgradeCallsAndRecord ==
    (op = "upgrade" /\ pc = "returned" /\ ~dry_run) =>
        /\ \A r \in Releases :
              /\ Count("install", r) = Once(r, NewReleases \ OldReleases)
              /\ Count("update", r) = Once(r, OldReleases \cap NewReleases)
              /\ Count("uninstall", r) = Once(r, OldReleases \ NewReleases)
        /\ Len(helm_calls) = Cardinality(OldReleases \cup NewReleases)
        /\ \A i \in 1..Len(helm_calls) : ~helm_calls[i].dry_run
        /\ db_calls = << "save" >>
        /\ db.manifest = render_template(template, user_inputs)
        /\ db.template = template
        /\ db.user_inputs = user_inputs
        /\ db.status = "running"

\* C10 witness: a real upgrade from {A, B} to {B, C} returned with C
\* installed, B updated and A uninstalled.
C10_Witness ==
    /\ op = "upgrade" /\ pc = "returned" /\ ~dry_run
    /\ OldReleases = {"A", "B"}
    /\ NewReleases = {"B", "C"}
    /\ DOMAIN result.installed_releases = {"C"}
    /\ DOMAIN result.updated_releases = {"B"}
    /\ result.uninstalled_releases = {"A"}
    /\ cluster = {"B", "C"}

\* The three key sets upgrade() takes from the two manifests in hand.
ToInstall == charts_to_install(old_template_schema, manifest)
ToRemove == releases_to_remove(old_template_schema, manifest)
ToUpdate == releases_to_update(old_template_schema, manifest)

\* C11: for any stored and any new manifest of an upgrade, a release is to
\* be installed exactly when the new manifest declares it and the stored one
\* does not, to be removed exactly when the stored one declares it and the
\* new one does not, to be updated exactly when both declare it; the three
\* sets are pairwise disjoint and together hold every release either manifest
\* declares; the loop upgrade() enters first walks the set of its kind.
C11_DiffPartition ==
    (op = "upgrade" /\ manifest # NoManifest) =>
        /\ \A r \in Releases :
              /\ r \in ToInstall <=> (r \in NewReleases /\ r \notin OldReleases)
              /\ r \in ToRemove <=> (r \in OldReleases /\ r \notin NewReleases)
              /\ r \in ToUpdate <=> (r \in OldReleases /\ r \in NewReleases)
        /\ ToInstall \cap ToRemove = {}
        /\ ToInstall \cap ToUpdate = {}
        /\ ToRemove \cap ToUpdate = {}
        /\ ToInstall \cup ToRemove \cup ToUpdate = OldReleases \cup NewReleases
        /\ (pc = "upgrade_install" /\ helm_calls = << >>) => todo = NewReleases \ OldReleases
        /\ (pc = "upgrade_update" /\ Calls("update") = << >>) =>
              todo = OldReleases \cap NewReleases
        /\ (pc = "upgrade_remove" /\ Calls("uninstall") = << >>) =>
              todo = OldReleases \ NewReleases

\* C11 witness: an upgrade whose diff has all three parts, at its first
\* removal, after the installs and the updates.
C11_Witness ==
    /\ op = "upgrade"
    /\ OldReleases = {"A", "B"}
    /\ NewReleases = {"B", "C", "D"}
    /\ pc = "upgrade_remove"
    /\ todo = {"A"}
    /\ Count("install", "C") = 1
    /\ Count("install", "D") = 1
    /\ Count("update", "B") = 1

\* The inputs of the new template that declare a default, and the default.
Defaulted(t) == {d.name : d \in {e \in Range(TemplateInputs(t)) : e.has_default}}
DefaultOf(t, n) == (CHOOSE d \in Range(TemplateInputs(t)) : d.name = n).default

\* C12: in an upgrade that has not yet saved, the inputs in hand have as keys
\* the inputs of the new template that declare a default together with the
\* keys of the stored user inputs; a key of the stored inputs keeps its stored
\* value, a key only among the defaults has the default; and the charts of
\* the new manifest are those the new template gives for exactly these inputs.
C12_MergedInputs ==
    (op = "upgrade" /\ db_calls = << >>) =>
        /\ DOMAIN user_inputs = Defaulted(template) \cup DOMAIN application.user_inputs
        /\ \A n \in DOMAIN application.user_inputs :
              user_inputs[n] = application.user_inputs[n]
        /\ \A n \in Defaulted(template) \ DOMAIN application.user_inputs :
              user_inputs[n] = DefaultOf(template, n)
        /\ manifest # NoManifest =>
              manifest.charts = TemplateCharts(template, user_inputs)

\* C12 witness: an upgrade to T2 of an application whose stored replicas (2)
\* differs from the default (1) and whose stored inputs have no tier, with
\* chart calls made.
C12_Witness ==
    /\ op = "upgrade"
    /\ template = "T2"
    /\ db_calls = << >>
    /\ application.user_inputs = [region |-> 1, replicas |-> 2]
    /\ user_inputs = [region |-> 1, replicas |-> 2, tier |-> 1]
    /\ manifest # NoManifest
    /\ helm_calls # << >>

\* The call in hand is an update_user_inputs whose new inputs and stored
\* inputs have different key sets.
KeySetDiffers ==
    /\ op = "update_user_inputs"
    /\ DOMAIN user_inputs # DOMAIN application.user_inputs

KeyAddedRejected ==
    /\ KeySetDiffers
    /\ application.user_inputs = [region |-> 1]
    /\ user_inputs = [region |-> 1, replicas |-> 2]
    /\ error = Failure("InvalidUserInputs", << >>)

\* The immutable inputs of the stored manifest whose new value differs from
\* the stored value.
ChangedImmutables ==
    {d.name : d \in {e \in Range(application.manifest.inputs) :
                        /\ e.immutable
                        /\ e.name \in DOMAIN user_inputs
                        /\ e.name \in DOMAIN application.user_inputs
                        /\ user_inputs[e.name] # application.user_inputs[e.name]}}

\* The call in hand is an update_user_inputs that passed the schema
\* validation and the key set comparison and changes an immutable input.
ImmutableChanged ==
    /\ op = "update_user_inputs"
    /\ validate_inputs(application.manifest.inputs, user_inputs)
    /\ DOMAIN user_inputs = DOMAIN application.user_inputs
    /\ db_calls = << >>
    /\ ChangedImmutables # {}

\* C14: an update_user_inputs that changes immutable inputs raises one
\* InvalidUserInputs whose list holds exactly the immutable inputs that
\* changed, each once, makes no chart call and leaves the record and the
\* cluster as they were.
C14_ImmutableRejected ==
    ImmutableChanged =>
        /\ pc = "raised"
        /\ error.type = "InvalidUserInputs"
        /\ Range(error.names) = ChangedImmutables
        /\ Len(error.names) = Cardinality(ChangedImmutables)
        /\ helm_calls = << >>
        /\ db = application
        /\ cluster = entry_cluster

\* Every immutable input of the stored manifest is among the stored inputs.
ImmutablesStored ==
    \A d \in Range(application.manifest.inputs) :
        d.immutable => d.name \in DOMAIN application.user_inputs

\* What update_user_inputs does with a changed immutable input: the failure
\* of C14 when every immutable input is among the stored inputs, a KeyError
\* otherwise; in both cases no chart call and no write.
ImmutableRejectedOrKeyError ==
    ImmutableChanged =>
        /\ pc = "raised"
        /\ helm_calls = << >>
        /\ db = application
        /\ cluster = entry_cluster
        /\ IF ImmutablesStored
           THEN /\ error.type = "InvalidUserInputs"
                /\ Range(error.names) = ChangedImmutables
                /\ Len(error.names) = Cardinality(ChangedImmutables)
           ELSE error = Failure("KeyError", << >>)

\* A mutable and two immutable inputs changed; the failure lists the two.
ImmutableRejectedListsBoth ==
    /\ ImmutableChanged
    /\ ChangedImmutables = {"region", "tier"}
    /\ "replicas" \in DOMAIN user_inputs
    /\ user_inputs["replicas"] # application.user_inputs["replicas"]
    /\ Range(error.names) = {"region", "tier"}

\* The releases the chart calls of the call in hand went to, in call order.
CalledReleases == [i \in 1..Len(helm_calls) |-> helm_calls[i].release]

\* C15: every chart call of an update_user_inputs is an update; the calls go
\* to the releases of the newly rendered manifest in its order, none twice,
\* and to every one of them when the call returned; the cluster holds the
\* releases it held at entry.
C15_UpdateInputsTopology ==
    op = "update_user_inputs" =>
        /\ \A i \in 1..Len(helm_calls) : helm_calls[i].kind = "update"
        /\ \A r \in Releases : Count("install", r) = 0 /\ Count("uninstall", r) = 0
        /\ \A r \in Releases : Count("update", r) <= 1
        /\ manifest = NoManifest => helm_calls = << >>
        /\ manifest # NoManifest =>
              CalledReleases = SubSeq(Names(manifest.charts), 1, Len(helm_calls))
        /\ pc = "returned" =>
              \A r \in NewReleases : Count("update", r) = 1
        /\ cluster = entry_cluster

\* C15 witness: an update_user_inputs whose new manifest declares a release
\* (B) the stored one did not has returned after updating A and B, and the
\* cluster still holds A alone.
C15_Witness ==
    /\ op = "update_user_inputs"
    /\ pc = "returned"
    /\ ~dry_run
    /\ OldReleases = {"A"}
    /\ NewReleases = {"A", "B"}
    /\ CalledReleases = << "A", "B" >>
    /\ cluster = {"A"}

\* C16: a terminate never raises; its chart calls are uninstalls, without
\* dry_run, of the charts of the stored manifest in manifest order, whatever
\* the outcome of the earlier ones; the record is deleted after the last of
\* them and not before, and a terminate that returned has called every chart
\* and left no record.
C16_TerminateBestEffort ==
    op = "terminate" =>
        /\ pc # "raised"
        /\ error = NoError
        /\ \A i \in 1..Len(helm_calls) :
              helm_calls[i].kind = "uninstall" /\ ~helm_calls[i].dry_run
        /\ CalledReleases = SubSeq(Names(application.manifest.charts), 1, Len(helm_calls))
        /\ pc # "returned" => db_calls = << >> /\ db = application
        /\ pc = "returned" =>
              /\ CalledReleases = Names(application.manifest.charts)
              /\ db_calls = << "delete" >>
              /\ db = NoRecord

\* C16 witness: a terminate of three releases whose first uninstall failed
\* has called all three and deleted the record.
C16_Witness ==
    /\ op = "terminate"
    /\ pc = "returned"
    /\ Len(helm_calls) = 3
    /\ ~helm_calls[1].ok
    /\ helm_calls[3].ok
    /\ db = NoRecord

\* C17: an install, upgrade or update_user_inputs writes the repository at
\* most once, and only as its last step, after its chart calls: until then
\* the record is the one found at entry, and a call that raised has written
\* nothing.
C17_SingleLateWrite ==
    op \in {"install", "upgrade", "update_user_inputs"} =>
        /\ Len(db_calls) <= 1
        /\ db_calls # << >> => pc = "returned" /\ error = NoError /\ ~dry_run
        /\ db_calls = << >> => db = application
        /\ pc = "raised" => db_calls = << >>

\* C17 witness: an upgrade that made chart calls and raised has left the
\* record found at entry.
C17_Witness ==
    /\ op = "upgrade"
    /\ pc = "raised"
    /\ ~dry_run
    /\ installed_charts # << >>
    /\ db_calls = << >>
    /\ db = application
    /\ db.template # template

\* A terminate() of another request has entered beside the upgrade in hand.
TerminateBeside == op = "upgrade" /\ concurrent.pc # "idle"

\* C18: nothing orders an upgrade and a terminate() of another request on
\* the same application. The terminate works on the manifest stored before
\* the upgrade, so it uninstalls none of the releases the upgrade installs:
\* they stay in the cluster when it has deleted the record. A non-dry-run
\* upgrade that reaches its save after that deletion writes the record
\* again, with the new manifest.
C18_TerminateBesideUpgrade ==
    TerminateBeside =>
        /\ concurrent.manifest = old_template_schema
        /\ (~dry_run /\ pc \notin {"upgrade_rollback", "raised"}) =>
              \A i \in 1..Len(installed_charts) : installed_charts[i] \in cluster
        /\ concurrent.pc # "returned" =>
              /\ db_calls \in {<< >>, << "save" >>}
              /\ db = application
        /\ concurrent.pc = "returned" =>
              /\ concurrent.index = Len(concurrent.manifest.charts) + 1
              /\ db_calls \in {<< "delete" >>, << "delete", "save" >>, << "save", "delete" >>}
              /\ db_calls[Len(db_calls)] = "delete" => db = NoRecord
              /\ (pc = "upgrade_save" /\ ~dry_run) => db_calls = << "delete" >>
              /\ (pc = "returned" /\ ~dry_run) => Len(db_calls) = 2
              /\ db_calls = << "delete", "save" >> =>
                    /\ pc = "returned"
                    /\ db = application
                    /\ db.manifest = manifest

\* C18 witness: a terminate() that entered when the upgrade had made its
\* chart calls and not yet saved has uninstalled and deleted; the upgrade
\* then saved: the record is back and the releases the upgrade installed are
\* in the cluster.
C18_Witness ==
    /\ TerminateBeside
    /\ concurrent.entered_at = "upgrade_save"
    /\ concurrent.pc = "returned"
    /\ pc = "returned"
    /\ ~dry_run
    /\ db_calls = << "delete", "save" >>
    /\ db # NoRecord
    /\ installed_charts # << >>
    /\ \A i \in 1..Len(installed_charts) : installed_charts[i] \in cluster

\* The record is deleted, the upgrade has not yet saved, and releases it
\* installed are in the cluster.
RecordGoneReleasesLeft ==
    /\ TerminateBeside
    /\ concurrent.pc = "returned"
    /\ pc = "upgrade_save"
    /\ ~dry_run
    /\ db = NoRecord
    /\ installed_charts # << >>
    /\ \A i \in 1..Len(installed_charts) : installed_charts[i] \in cluster

\* The releases whose install succeeded in the call in hand, in call order.
InstalledOk ==
    LET done == SelectSeq(helm_calls, LAMBDA c : c.kind = "install" /\ c.ok) IN
    [i \in 1..Len(done) |-> done[i].release]

\* The releases the call in hand asked to uninstall, in call order.
Uninstalled == [i \in 1..Len(Calls("uninstall")) |-> Calls("uninstall")[i].release]

\* An install or upgrade ended by the cancellation of an install_chart.
CancelledInstall ==
    /\ op \in {"install", "upgrade"}
    /\ pc = "raised"
    /\ error.type = "CancelledError"

\* C19: a non-dry-run install or upgrade ended by the cancellation of an
\* install_chart has asked to uninstall the releases it installed, in
\* reverse order of installation, and has written no record.
C19_CancelledInstallCompensated ==
    (CancelledInstall /\ ~dry_run) =>
        /\ Uninstalled = Reverse(InstalledOk)
        /\ db_calls = << >>
        /\ db = application

\* What the code does on a cancellation: no compensating call at all, and no
\* record written.
CancelledInstallPropagates ==
    CancelledInstall => Uninstalled = << >> /\ db_calls = << >> /\ db = application

\* A cancelled install after a successful one leaves that release in the
\* cluster with no record.
CancelledInstallLeavesRelease ==
    /\ CancelledInstall
    /\ op = "install"
    /\ ~dry_run
    /\ InstalledOk # << >>
    /\ db = NoRecord
    /\ \A i \in 1..Len(InstalledOk) : InstalledOk[i] \in cluster

\* C20: within one call no release receives more than one install call or
\* more than one update call, and no call follows a failed call of the same
\* kind to the same release.
C20_NoRetry ==
    /\ \A r \in Releases : Count("install", r) <= 1 /\ Count("update", r) <= 1
    /\ \A i \in 1..Len(helm_calls), j \in 1..Len(helm_calls) :
          (i < j /\ ~helm_calls[i].ok) =>
              ~(/\ helm_calls[j].kind = helm_calls[i].kind
                /\ helm_calls[j].release = helm_calls[i].release)

\* C20 witness: an install of three charts whose third install failed and
\* whose first clean-up uninstall failed has raised after five calls.
C20_Witness ==
    /\ op = "install"
    /\ pc = "raised"
    /\ Len(helm_calls) = 5
    /\ ~helm_calls[3].ok
    /\ ~helm_calls[4].ok
    /\ helm_calls[5].ok

\* An upgrade has made calls after a failed removal.
CallsAfterFailedRemoval ==
    /\ op = "upgrade"
    /\ pc = "returned"
    /\ \E i \in 1..Len(helm_calls) :
          /\ helm_calls[i].kind = "uninstall"
          /\ ~helm_calls[i].ok
          /\ i < Len(helm_calls)

\* The releases the install calls of the call in hand went to, in call order.
InstallOrder == [i \in 1..Len(Calls("install")) |-> Calls("install")[i].release]

\* C21: the install calls of an install go to the charts of the manifest in
\* declaration order, one each; only the last of them can have failed, so
\* the charts after a failed one receive no install call; an install one of
\* whose calls failed never returns a result, and an install that returned
\* has called every chart and returns the result of each.
C21_InstallInOrder ==
    (op = "install" /\ manifest # NoManifest) =>
        /\ InstallOrder = SubSeq(Names(manifest.charts), 1, Len(InstallOrder))
        /\ \A i \in 1..Len(Calls("install")) :
              ~Calls("install")[i].ok => i = Len(Calls("install"))
        /\ InstallFailed => pc # "returned" /\ result = NoResult
        /\ pc = "returned" =>
              /\ InstallOrder = Names(manifest.charts)
              /\ DOMAIN result.results = Declared(manifest)

\* C21 witness: an install of three charts whose second install failed has
\* raised with two install calls and no result.
C21_Witness ==
    /\ op = "install"
    /\ pc = "raised"
    /\ Len(manifest.charts) = 3
    /\ InstallOrder = << "B", "C" >>
    /\ ~Calls("install")[2].ok
    /\ result = NoResult

\* The call in hand is an update_user_inputs whose new manifest lacks a
\* release the stored manifest declared.
ReleaseDropped ==
    /\ op = "update_user_inputs"
    /\ manifest # NoManifest
    /\ OldReleases \ NewReleases # {}

IsRemoval(i) == helm_calls[i].kind = "uninstall" /\ helm_calls[i].release \in ToRemove

\* C23: in an upgrade no install call follows an update call, nothing but
\* removals follows a removal, and no update follows an uninstall; when a
\* removal has been called, every release to install has a successful
\* install, none was rolled back, and every release to update has its update.
C23_UpgradePhaseOrder ==
    (op = "upgrade" /\ manifest # NoManifest) =>
        /\ \A i \in 1..Len(helm_calls), j \in 1..Len(helm_calls) :
              i < j =>
                 /\ helm_calls[i].kind = "update" => helm_calls[j].kind # "install"
                 /\ helm_calls[i].kind = "uninstall" => helm_calls[j].kind = "uninstall"
                 /\ IsRemoval(i) => IsRemoval(j)
        /\ (\E i \in 1..Len(helm_calls) : IsRemoval(i)) =>
              /\ \A r \in ToInstall :
                    \E i \in 1..Len(helm_calls) : /\ helm_calls[i].kind = "install"
                                                  /\ helm_calls[i].release = r
                                                  /\ helm_calls[i].ok
              /\ \A i \in 1..Len(helm_calls) :
                    helm_calls[i].kind = "uninstall" => IsRemoval(i)
              /\ \A r \in ToUpdate : Count("update", r) = 1

\* C23 witness: an upgrade with one release to install, one to update and
\* two to remove has returned after its four calls, the first removal failed.
C23_Witness ==
    /\ op = "upgrade"
    /\ pc = "returned"
    /\ OldReleases = {"A", "B", "C"}
    /\ NewReleases = {"C", "D"}
    /\ Len(helm_calls) = 4
    /\ helm_calls[1].kind = "install"
    /\ helm_calls[2].kind = "update"
    /\ IsRemoval(3) /\ ~helm_calls[3].ok
    /\ IsRemoval(4)

\* The releases to install, in the order the new manifest declares them.
DeclaredToInstall ==
    SelectSeq(Names(manifest.charts), LAMBDA r : r \notin OldReleases)

\* C24: the install calls of an upgrade go to the releases to install in the
\* order in which the new manifest declares them.
C24_InstallInDeclarationOrder ==
    (op = "upgrade" /\ manifest # NoManifest) =>
        InstallOrder = SubSeq(DeclaredToInstall, 1, Len(InstallOrder))

\* What the loop over the set charts_to_install guarantees: the install calls
\* go to distinct releases of the set, in some order.
InstallInSomeOrder ==
    (op = "upgrade" /\ manifest # NoManifest) =>
        /\ \A i \in 1..Len(InstallOrder) : InstallOrder[i] \in ToInstall
        /\ \A i \in 1..Len(InstallOrder), j \in 1..Len(InstallOrder) :
              i # j => InstallOrder[i] # InstallOrder[j]

\* An upgrade to the manifest that declares B then C has installed C, then B.
InstalledAgainstDeclaration ==
    /\ op = "upgrade"
    /\ OldReleases = {"A"}
    /\ Names(manifest.charts) = << "B", "C" >>
    /\ InstallOrder = << "C", "B" >>

\* The same upgrade has installed B, then C.
InstalledAsDeclared ==
    /\ op = "upgrade"
    /\ OldReleases = {"A"}
    /\ Names(manifest.charts) = << "B", "C" >>
    /\ InstallOrder = << "B", "C" >>

\* The record r holds the rendering of its template with its inputs.
Rendered(r) == r.manifest = render_template(r.template, r.user_inputs)

\* C25: the manifest of the persisted record is the rendering of the
\* record's template with the record's user inputs.
C25_ManifestReflectsInputs ==
    db # NoRecord => Rendered(db)

\* The record an install or an upgrade writes holds the rendering of its
\* template with its inputs.
InstallAndUpgradeWriteRendered ==
    [][(op' \in {"install", "upgrade"} /\ db' # db /\ db' # NoRecord) => Rendered(db')]_vars

\* A non-dry-run update_user_inputs has returned and the record holds the
\* new manifest with the inputs of before, from which it does not render.
StaleInputsAfterUpdate ==
    /\ op = "update_user_inputs"
    /\ pc = "returned"
    /\ db_calls = << "save" >>
    /\ db.manifest = render_template(db.template, user_inputs)
    /\ db.user_inputs # user_inputs
    /\ ~Rendered(db)

\* C26: an update_user_inputs one of whose update calls failed has raised
\* the HelmException of that call, which is its last chart call: the
\* releases after it received no update and the releases updated before it
\* received no further call; the record was not written and holds the
\* manifest of before.
C26_UpdateFailureRaises ==
    (op = "update_user_inputs" /\ SomeFailed("update")) =>
        /\ pc = "raised"
        /\ ~helm_calls[Len(helm_calls)].ok
        /\ error = HelmException("update", helm_calls[Len(helm_calls)].release)
        /\ \A i \in 1..(Len(helm_calls) - 1) : helm_calls[i].ok
        /\ \A i \in 1..Len(helm_calls) : helm_calls[i].kind = "update"
        /\ \A r \in Releases : Count("update", r) <= 1
        /\ result = NoResult
        /\ db_calls = << >>
        /\ db = application
        /\ db.manifest = old_template_schema

\* C26 witness: a non-dry-run update_user_inputs over three releases whose
\* second update failed has raised after two calls; the new manifest differs
\* from the stored one.
C26_Witness ==
    /\ op = "update_user_inputs"
    /\ pc = "raised"
    /\ ~dry_run
    /\ Len(manifest.charts) = 3
    /\ Len(helm_calls) = 2
    /\ helm_calls[1].ok
    /\ ~helm_calls[2].ok
    /\ manifest # old_template_schema
    /\ db.manifest = old_template_schema

\* C27: the uninstalled releases an upgrade returns are the releases the
\* stored manifest declares and the new one does not, whatever the outcome
\* of their uninstall calls and whether or not the upgrade was a dry run.
C27_UninstalledReported ==
    (op = "upgrade" /\ pc = "returned") =>
        result.uninstalled_releases = OldReleases \ NewReleases

\* C27 witness: a non-dry-run upgrade that had A and B to remove and whose
\* uninstall of A failed has returned both names, and A is in the cluster.
C27_Witness ==
    /\ op = "upgrade"
    /\ pc = "returned"
    /\ ~dry_run
    /\ result.uninstalled_releases = {"A", "B"}
    /\ \E i \in 1..Len(helm_calls) : /\ helm_calls[i].kind = "uninstall"
                                      /\ helm_calls[i].release = "A"
                                      /\ ~helm_calls[i].ok
    /\ "A" \in cluster
    /\ "B" \notin cluster

\* A dry-run upgrade has returned the names of releases it did not remove.
DryRunReportsUninstalled ==
    /\ op = "upgrade"
    /\ pc = "returned"
    /\ dry_run
    /\ result.uninstalled_releases # {}
    /\ result.uninstalled_releases \subseteq cluster

\* C28: when only successful non-dry-run calls were made since the empty
\* cluster and repository, a terminate that returned has left no release in
\* the cluster and no record.
C28_RoundTrip ==
    (op = "terminate" /\ pc = "returned") => cluster = {} /\ db = NoRecord

\* What such a terminate does leave: no record, and none of the releases
\* the record declared.
TerminateRemovesDeclared ==
    (op = "terminate" /\ pc = "returned") =>
        /\ db = NoRecord
        /\ cluster \cap Declared(application.manifest) = {}

\* An update_user_inputs whose new manifest lacks a release of the cluster
\* has saved: the record no longer declares a release that is installed.
UndeclaredAfterUpdate ==
    /\ op = "update_user_inputs"
    /\ pc = "returned"
    /\ db_calls = << "save" >>
    /\ entry_cluster = OldReleases
    /\ cluster \ PersistedReleases # {}

====
